---- MODULE Spec2Model ----
(***************************************************************************)
(* A model of ray/common/task/scheduling_resources.cc: ResourceSet,        *)
(* ResourceIds, ResourceIdSet and SchedulingResources.                     *)
(*                                                                         *)
(* A FixedPoint quantity is modelled by its integer numerator over the     *)
(* denominator Scale, so One == Scale is the quantity 1.  A ResourceSet is *)
(* a function from the names it holds to numerators; a ResourceIds pool is *)
(* a record of its four fields; a (slot id, fraction) pair is a 2-tuple.   *)
(* A failed RAY_CHECK terminates the process: the action that runs into it *)
(* sets fatal and no action is enabled afterwards.                         *)
(***************************************************************************)
EXTENDS Integers, Sequences, FiniteSets, Bags, TLC

\* ------------------------------------------------------------- bounds
\* Denominator of the modelled FixedPoint values.
Scale == 3
\* Largest capacity a pool is constructed with or updated to.
MaxCap == 2
\* Most grants outstanding at once on one pool.
MaxGrants == 3
\* Most slots, free or granted, a capacity update may leave in circulation.
MaxSlots == 3
\* A double is a count of steps, DoubleSteps of them to one FixedPoint unit.
DoubleSteps == 4

\* Largest capacity given to the pool of the ResourceIdSet, and the most
\* slots (free and granted) that pool may reach.
MaxIdCap == 1
MaxIdSlots == MaxIdCap + 1
\* Largest numerator a ResourceSet of the model holds or is passed.
MaxQty == 3

One == Scale

Min(a, b) == IF a < b THEN a ELSE b
Max(a, b) == IF a > b THEN a ELSE b

\* The conversion of a double to int64_t: truncation towards zero, on a
\* numerator over Scale.
TruncToInt(x) == IF x >= 0 THEN x \div One ELSE -((-x) \div One)

\* ------------------------------------------------------- ResourceSet
\* The resource names of the model.
Names == {"CPU", "GPU"}

\* The ResourceSet with no entry.
EmptySet == [k \in {} |-> 0]

\* The ResourceSets a caller passes: every value positive, as the
\* constructors check.
ResourceSetsUpTo(m) == UNION {[D -> 1..m] : D \in SUBSET Names}

\* What an operation on a ResourceSet yields: whether a RAY_CHECK failed and
\* the map afterwards.
SetFatal(self) == [fatal |-> TRUE, set |-> self]
SetDone(self) == [fatal |-> FALSE, set |-> self]

\* FixedPoint(double): the double, given in steps, rounded to the nearest
\* FixedPoint numerator.
FixedPointOfDouble(d) == (2 * d + DoubleSteps) \div (2 * DoubleSteps)

\* ResourceSet::ResourceSet(map of FixedPoint): every value is checked.
NewResourceSet(resource_map) ==
  IF \A k \in DOMAIN resource_map : resource_map[k] > 0
  THEN SetDone(resource_map)
  ELSE SetFatal(EmptySet)

\* ResourceSet::ResourceSet(map of double): every double is checked, then
\* converted and stored.
NewResourceSetOfDoubles(resource_map) ==
  IF \A k \in DOMAIN resource_map : resource_map[k] > 0
  THEN SetDone([k \in DOMAIN resource_map |->
                  FixedPointOfDouble(resource_map[k])])
  ELSE SetFatal(EmptySet)

\* ResourceSet::GetResource
GetResource(self, resource_name) ==
  IF resource_name \in DOMAIN self THEN self[resource_name] ELSE 0

\* ResourceSet::IsEmpty
IsEmpty(self) == DOMAIN self = {}

\* Fault: a key that other lacks is skipped instead of compared with 0.
IsSubsetSkippingAbsent(self, other) ==
  \A k \in DOMAIN self \cap DOMAIN other : ~(self[k] > other[k])

\* ResourceSet::IsSubset
IsSubset(self, other) ==
  \A k \in DOMAIN self : ~(self[k] > GetResource(other, k))

\* ResourceSet::IsSuperset
IsSuperset(self, other) == IsSubset(other, self)

\* ResourceSet::IsEqual and operator==
IsEqual(self, rhs) == IsSubset(self, rhs) /\ IsSubset(rhs, self)

\* resource_capacity_[name] = value
Store(self, name, value) ==
  [k \in DOMAIN self \cup {name} |-> IF k = name THEN value ELSE self[k]]

\* resource_capacity_.erase(name)
EraseKey(self, name) == [k \in DOMAIN self \ {name} |-> self[k]]

\* ResourceSet::AddOrUpdateResource
AddOrUpdateResource(self, resource_name, capacity) ==
  IF capacity > 0 THEN Store(self, resource_name, capacity) ELSE self

\* ResourceSet::DeleteResource
DeleteResource(self, resource_name) == EraseKey(self, resource_name)

\* Fault: an entry is erased only below 0, so one that reaches 0 stays.
SubtractEntryKeepingZero(self, resource_label, resource_capacity) ==
  LET sub == IF resource_label \in DOMAIN self
             THEN Store(self, resource_label,
                        self[resource_label] - resource_capacity)
             ELSE self
      got == Store(sub, resource_label, GetResource(sub, resource_label))
  IN IF got[resource_label] < 0 THEN EraseKey(got, resource_label) ELSE got

\* One round of the loop of ResourceSet::SubtractResources; operator[] in
\* the comparison creates a missing entry with the value 0.
SubtractEntry(self, resource_label, resource_capacity) ==
  LET sub == IF resource_label \in DOMAIN self
             THEN Store(self, resource_label,
                        self[resource_label] - resource_capacity)
             ELSE self
      got == Store(sub, resource_label, GetResource(sub, resource_label))
  IN IF got[resource_label] <= 0 THEN EraseKey(got, resource_label) ELSE got

RECURSIVE SubtractOver(_, _, _)
SubtractOver(self, other, keys) ==
  IF keys = {} THEN self
  ELSE LET k == CHOOSE x \in keys : TRUE
       IN SubtractOver(SubtractEntry(self, k, other[k]), other, keys \ {k})

\* ResourceSet::SubtractResources
SubtractResources(self, other) == SubtractOver(self, other, DOMAIN other)

\* Fault: the check after the subtraction is missing.
SubtractEntryUnchecked(self, resource_label, resource_capacity) ==
  IF resource_label \notin DOMAIN self
  THEN SetFatal(self)
  ELSE LET v == self[resource_label] - resource_capacity
       IN IF v = 0
          THEN SetDone(EraseKey(self, resource_label))
          ELSE SetDone(Store(self, resource_label, v))

\* One round of the loop of ResourceSet::SubtractResourcesStrict.
SubtractEntryStrict(self, resource_label, resource_capacity) ==
  IF resource_label \notin DOMAIN self
  THEN SetFatal(self)
  ELSE LET v == self[resource_label] - resource_capacity
       IN IF ~(v >= 0)
          THEN SetFatal(self)
          ELSE IF v = 0
               THEN SetDone(EraseKey(self, resource_label))
               ELSE SetDone(Store(self, resource_label, v))

RECURSIVE SubtractStrictOver(_, _, _)
SubtractStrictOver(self, other, keys) ==
  IF keys = {} THEN SetDone(self)
  ELSE LET k == CHOOSE x \in keys : TRUE
           r == SubtractEntryStrict(self, k, other[k])
       IN IF r.fatal THEN SetFatal(self)
          ELSE SubtractStrictOver(r.set, other, keys \ {k})

\* ResourceSet::SubtractResourcesStrict
SubtractResourcesStrict(self, other) ==
  SubtractStrictOver(self, other, DOMAIN other)

\* Fault: the sum is stored without the cap of total_resources.
AddEntryUncapped(self, label, capacity, total_resources) ==
  IF label \in DOMAIN total_resources
  THEN Store(self, label, GetResource(self, label) + capacity)
  ELSE self

\* Fault: a label that total_resources lacks is added all the same.
AddEntryOfAbsentLabel(self, label, capacity, total_resources) ==
  IF label \in DOMAIN total_resources
  THEN Store(self, label,
             Min(GetResource(self, label) + capacity, total_resources[label]))
  ELSE Store(self, label, GetResource(self, label) + capacity)

\* One round of the loop of ResourceSet::AddResourcesCapacityConstrained.
AddEntryCapacityConstrained(self, label, capacity, total_resources) ==
  IF label \in DOMAIN total_resources
  THEN Store(self, label,
             Min(GetResource(self, label) + capacity, total_resources[label]))
  ELSE self

RECURSIVE AddConstrainedOver(_, _, _, _)
AddConstrainedOver(self, other, total_resources, keys) ==
  IF keys = {} THEN self
  ELSE LET k == CHOOSE x \in keys : TRUE
       IN AddConstrainedOver(
            AddEntryCapacityConstrained(self, k, other[k], total_resources),
            other, total_resources, keys \ {k})

\* ResourceSet::AddResourcesCapacityConstrained
AddResourcesCapacityConstrained(self, other, total_resources) ==
  AddConstrainedOver(self, other, total_resources, DOMAIN other)

\* One round of the loop of ResourceSet::AddResources.
AddEntry(self, resource_label, resource_capacity) ==
  Store(self, resource_label, GetResource(self, resource_label) + resource_capacity)

RECURSIVE AddOver(_, _, _)
AddOver(self, other, keys) ==
  IF keys = {} THEN self
  ELSE LET k == CHOOSE x \in keys : TRUE
       IN AddOver(AddEntry(self, k, other[k]), other, keys \ {k})

\* ResourceSet::AddResources
AddResources(self, other) == AddOver(self, other, DOMAIN other)

\* ------------------------------------------------------- ResourceIds
\* ResourceIds::IsWhole, on a numerator.
IsWhole(q) == q % One = 0

RECURSIVE SumFractions(_)
SumFractions(fr) ==
  IF fr = <<>> THEN 0 ELSE fr[1][2] + SumFractions(Tail(fr))

\* ResourceIds::TotalQuantity
TotalQuantity(p) == Len(p.whole_ids) * One + SumFractions(p.fractional_ids)

\* ResourceIds::TotalQuantityIsZero
TotalQuantityIsZero(p) == p.whole_ids = <<>> /\ p.fractional_ids = <<>>

\* ResourceIds::ResourceIds(double resource_quantity); c is the whole number
\* of units.
NewResourceIds(c) ==
  [whole_ids |-> [i \in 1..c |-> i - 1], fractional_ids |-> <<>>,
   total_capacity |-> c * One, decrement_backlog |-> 0]

\* ResourceIds::ResourceIds(const std::vector<int64_t> &whole_ids)
WholeResourceIds(ids) ==
  [whole_ids |-> ids, fractional_ids |-> <<>>,
   total_capacity |-> Len(ids) * One, decrement_backlog |-> 0]

\* ResourceIds::ResourceIds(const std::vector<std::pair<...>> &fractional_ids)
FractionalResourceIds(fr) ==
  [whole_ids |-> <<>>, fractional_ids |-> fr,
   total_capacity |-> SumFractions(fr), decrement_backlog |-> 0]

\* The RAY_CHECK(IsWhole(...)) of ResourceIds::Contains.
ContainsFatal(p, q) == q >= One /\ ~IsWhole(q)

\* Fault: a quantity below 1 is looked for among the whole ids only.
ContainsAmongWhole(p, q) ==
  IF q >= One
  THEN Len(p.whole_ids) * One >= q
  ELSE Len(p.whole_ids) > 0

\* ResourceIds::Contains
Contains(p, q) ==
  IF q >= One
  THEN Len(p.whole_ids) * One >= q
  ELSE IF Len(p.whole_ids) > 0
       THEN TRUE
       ELSE \E i \in 1..Len(p.fractional_ids) : p.fractional_ids[i][2] >= q

\* What an operation on a pool yields: whether a RAY_CHECK failed, the pool
\* afterwards and the ResourceIds returned to the caller.
Fatal(p) == [fatal |-> TRUE, pool |-> p, grant |-> WholeResourceIds(<<>>)]
Done(p, g) == [fatal |-> FALSE, pool |-> p, grant |-> g]

\* The whole case of ResourceIds::Acquire: pop q ids off the tail.
AcquireWhole(p, q) ==
  LET n == q \div One
      len == Len(p.whole_ids)
  IN IF ~IsWhole(q) \/ len < n
     THEN Fatal(p)
     ELSE Done([p EXCEPT !.whole_ids = SubSeq(p.whole_ids, 1, len - n)],
               WholeResourceIds([i \in 1..n |-> p.whole_ids[len - i + 1]]))

\* Fault: the scan keeps the last entry that fits instead of returning at
\* the first.
LastFit(fr, q) ==
  IF \E i \in 1..Len(fr) : fr[i][2] >= q
  THEN CHOOSE i \in 1..Len(fr) :
         fr[i][2] >= q /\ \A j \in (i + 1)..Len(fr) : fr[j][2] < q
  ELSE 0

\* The entry of the fractional scan that is debited: the first whose
\* residual is at least q (0 when there is none).
FirstFit(fr, q) ==
  IF \E i \in 1..Len(fr) : fr[i][2] >= q
  THEN CHOOSE i \in 1..Len(fr) :
         fr[i][2] >= q /\ \A j \in 1..(i - 1) : fr[j][2] < q
  ELSE 0

\* std::swap with the last entry followed by pop_back.
SwapRemove(fr, i) ==
  LET n == Len(fr)
  IN [j \in 1..(n - 1) |-> IF j = i THEN fr[n] ELSE fr[j]]

\* The fractional case of ResourceIds::Acquire.
AcquireFractional(p, q) ==
  LET fr == p.fractional_ids
      i == FirstFit(fr, q)
      len == Len(p.whole_ids)
  IN IF i > 0
     THEN LET rest == fr[i][2] - q
          IN Done([p EXCEPT !.fractional_ids =
                     IF rest = 0 THEN SwapRemove(fr, i)
                     ELSE [fr EXCEPT ![i] = <<fr[i][1], rest>>]],
                  FractionalResourceIds(<<  <<fr[i][1], q>>  >>))
     ELSE IF len = 0
          THEN Fatal(p)
          ELSE LET id == p.whole_ids[len]
               IN Done([p EXCEPT !.whole_ids = SubSeq(p.whole_ids, 1, len - 1),
                                 !.fractional_ids = Append(fr, <<id, One - q>>)],
                       FractionalResourceIds(<<  <<id, q>>  >>))

\* ResourceIds::Acquire
Acquire(p, q) ==
  IF q >= One THEN AcquireWhole(p, q) ELSE AcquireFractional(p, q)

\* Fault: the first ids of the grant are appended instead of the last.
ReleaseWholeFirstIds(p, ids) ==
  LET n == Len(ids)
      b == p.decrement_backlog
  IN IF n > b
     THEN [p EXCEPT !.whole_ids = p.whole_ids \o SubSeq(ids, 1, n - b),
                    !.decrement_backlog = 0]
     ELSE [p EXCEPT !.decrement_backlog = b - n]

\* Fault: every returned id is appended and the backlog is left as it was.
ReleaseWholeIgnoringBacklog(p, ids) ==
  [p EXCEPT !.whole_ids = p.whole_ids \o ids]

\* Fault: the backlog is paid down, yet the ids it absorbed are kept.
ReleaseWholeKeepingAbsorbed(p, ids) ==
  [p EXCEPT !.whole_ids = p.whole_ids \o ids,
            !.decrement_backlog = Max(0, p.decrement_backlog - Len(ids))]

\* The whole ids of ResourceIds::Release: the backlog absorbs the first ids
\* returned, the rest are appended.
ReleaseWhole(p, ids) ==
  LET n == Len(ids)
      b == p.decrement_backlog
  IN IF n > b
     THEN [p EXCEPT !.whole_ids = p.whole_ids \o SubSeq(ids, b + 1, n),
                    !.decrement_backlog = 0]
     ELSE [p EXCEPT !.decrement_backlog = b - n]

\* std::find_if on the slot id: the first entry for id (0 when none).
FindId(fr, id) ==
  IF \E i \in 1..Len(fr) : fr[i][1] = id
  THEN CHOOSE i \in 1..Len(fr) :
         fr[i][1] = id /\ \A j \in 1..(i - 1) : fr[j][1] # id
  ELSE 0

\* vector::erase of entry i.
Erase(fr, i) == SubSeq(fr, 1, i - 1) \o SubSeq(fr, i + 1, Len(fr))

\* Fault: an id that merges to exactly 1 returns to whole_ids whatever the
\* backlog.
ReleaseFractionIgnoringBacklog(p, pair) ==
  LET fr == p.fractional_ids
      i == FindId(fr, pair[1])
  IN IF i = 0
     THEN Done([p EXCEPT !.fractional_ids = Append(fr, pair)], p)
     ELSE LET sum == fr[i][2] + pair[2]
          IN IF sum > One
             THEN Fatal(p)
             ELSE IF sum = One
                  THEN Done([p EXCEPT !.whole_ids = Append(@, pair[1]),
                                      !.fractional_ids = Erase(fr, i)], p)
                  ELSE Done([p EXCEPT !.fractional_ids =
                               [fr EXCEPT ![i] = <<fr[i][1], sum>>]], p)

\* Fault: an entry that merges to exactly 1 stays in fractional_ids.
ReleaseFractionKeepingWhole(p, pair) ==
  LET fr == p.fractional_ids
      i == FindId(fr, pair[1])
  IN IF i = 0
     THEN Done([p EXCEPT !.fractional_ids = Append(fr, pair)], p)
     ELSE LET sum == fr[i][2] + pair[2]
          IN IF sum > One
             THEN Fatal(p)
             ELSE Done([p EXCEPT !.fractional_ids =
                          [fr EXCEPT ![i] = <<fr[i][1], sum>>]], p)

\* One round of the loop of ResourceIds::Release over the fractional ids.
ReleaseFraction(p, pair) ==
  LET fr == p.fractional_ids
      i == FindId(fr, pair[1])
  IN IF i = 0
     THEN Done([p EXCEPT !.fractional_ids = Append(fr, pair)], p)
     ELSE LET sum == fr[i][2] + pair[2]
          IN IF sum > One
             THEN Fatal(p)
             ELSE IF sum = One
                  THEN IF p.decrement_backlog > 0
                       THEN Done([p EXCEPT !.decrement_backlog = @ - 1,
                                           !.fractional_ids = Erase(fr, i)], p)
                       ELSE Done([p EXCEPT !.whole_ids = Append(@, pair[1]),
                                           !.fractional_ids = Erase(fr, i)], p)
                  ELSE Done([p EXCEPT !.fractional_ids =
                               [fr EXCEPT ![i] = <<fr[i][1], sum>>]], p)

RECURSIVE ReleaseFractions(_, _)
ReleaseFractions(p, pairs) ==
  IF pairs = <<>>
  THEN Done(p, p)
  ELSE LET r == ReleaseFraction(p, Head(pairs))
       IN IF r.fatal THEN Fatal(p) ELSE ReleaseFractions(r.pool, Tail(pairs))

\* ResourceIds::Release
Release(p, g) ==
  ReleaseFractions(ReleaseWhole(p, g.whole_ids), g.fractional_ids)

\* Fault: the slots are added without cancelling the backlog first.
IncreaseCapacityKeepingBacklog(p, increment_quantity) ==
  Done([p EXCEPT !.whole_ids = @ \o [i \in 1..increment_quantity |-> -1],
                 !.total_capacity = @ + increment_quantity * One], p)

\* ResourceIds::IncreaseCapacity
IncreaseCapacity(p, increment_quantity) ==
  LET actual == Max(0, increment_quantity - p.decrement_backlog)
      backlog == Max(0, p.decrement_backlog - increment_quantity)
  IN Done([p EXCEPT !.decrement_backlog = backlog,
                    !.whole_ids = @ \o [i \in 1..actual |-> -1],
                    !.total_capacity = @ + actual * One], p)

\* ResourceIds::DecreaseCapacity
DecreaseCapacity(p, decrement_quantity) ==
  LET available == TruncToInt(TotalQuantity(p))
      short == available < decrement_quantity
      q == IF short THEN available ELSE decrement_quantity
      owed == [p EXCEPT !.decrement_backlog =
                 IF short THEN @ + (decrement_quantity - available) ELSE @]
      r == Acquire(owed, q * One)
  IN IF r.fatal
     THEN Fatal(p)
     ELSE Done([r.pool EXCEPT !.total_capacity = @ - decrement_quantity * One], p)

\* ResourceIds::UpdateCapacity
UpdateCapacity(p, new_capacity) ==
  IF new_capacity < 0
  THEN Fatal(p)
  ELSE LET capacity_delta == TruncToInt(new_capacity * One - p.total_capacity)
       IN IF capacity_delta < 0
          THEN DecreaseCapacity(p, -capacity_delta)
          ELSE IncreaseCapacity(p, capacity_delta)

\* ResourceIds::Plus
Plus(p, g) ==
  LET copy == [whole_ids |-> p.whole_ids, fractional_ids |-> p.fractional_ids,
               total_capacity |-> TotalQuantity(p), decrement_backlog |-> 0]
  IN Release(copy, g)

\* ----------------------------------------------------- ResourceIdSet
\* A ResourceIdSet is its available_resources_: a function from the names it
\* holds to their pools.
EmptyIdSet == [k \in {} |-> NewResourceIds(0)]

IdDone(ids, got) == [fatal |-> FALSE, set |-> ids, grant |-> got]
IdFatal(ids) == [fatal |-> TRUE, set |-> ids, grant |-> EmptyIdSet]

\* ResourceIdSet::ResourceIdSet(const ResourceSet &resource_set), for a set
\* of whole quantities.
NewResourceIdSet(resource_set) ==
  [k \in DOMAIN resource_set |-> NewResourceIds(resource_set[k] \div One)]

\* ResourceIdSet::Contains
IdSetContains(ids, resource_set) ==
  \A k \in DOMAIN resource_set :
    k \in DOMAIN ids /\ Contains(ids[k], resource_set[k])

\* One round of the loop of ResourceIdSet::Acquire.
IdSetAcquireEntry(ids, got, resource_name, resource_quantity) ==
  IF resource_name \notin DOMAIN ids
  THEN IdFatal(ids)
  ELSE LET r == Acquire(ids[resource_name], resource_quantity)
       IN IF r.fatal
          THEN IdFatal(ids)
          ELSE IdDone(IF TotalQuantityIsZero(r.pool)
                      THEN EraseKey(ids, resource_name)
                      ELSE Store(ids, resource_name, r.pool),
                      Store(got, resource_name, r.grant))

RECURSIVE IdSetAcquireOver(_, _, _, _)
IdSetAcquireOver(ids, got, resource_set, keys) ==
  IF keys = {} THEN IdDone(ids, got)
  ELSE LET k == CHOOSE x \in keys : TRUE
           r == IdSetAcquireEntry(ids, got, k, resource_set[k])
       IN IF r.fatal THEN IdFatal(ids)
          ELSE IdSetAcquireOver(r.set, r.grant, resource_set, keys \ {k})

\* ResourceIdSet::Acquire
IdSetAcquire(ids, resource_set) ==
  IdSetAcquireOver(ids, EmptyIdSet, resource_set, DOMAIN resource_set)

\* One round of the loop of ResourceIdSet::Release.
IdSetReleaseEntry(ids, resource_name, resource_ids) ==
  IF TotalQuantityIsZero(resource_ids)
  THEN IdFatal(ids)
  ELSE IF resource_name \notin DOMAIN ids
       THEN IdDone(Store(ids, resource_name, resource_ids), EmptyIdSet)
       ELSE LET r == Release(ids[resource_name], resource_ids)
            IN IF r.fatal THEN IdFatal(ids)
               ELSE IdDone(Store(ids, resource_name, r.pool), EmptyIdSet)

RECURSIVE IdSetReleaseOver(_, _, _)
IdSetReleaseOver(ids, resource_id_set, keys) ==
  IF keys = {} THEN IdDone(ids, EmptyIdSet)
  ELSE LET k == CHOOSE x \in keys : TRUE
           r == IdSetReleaseEntry(ids, k, resource_id_set[k])
       IN IF r.fatal THEN IdFatal(ids)
          ELSE IdSetReleaseOver(r.set, resource_id_set, keys \ {k})

\* ResourceIdSet::Release
IdSetRelease(ids, resource_id_set) ==
  IdSetReleaseOver(ids, resource_id_set, DOMAIN resource_id_set)

\* Fault: every pool of the grant is released, whatever resources_total
\* holds.
IdSetReleaseUnconstrained(ids, resource_id_set, resources_total) ==
  IdSetReleaseOver(ids, resource_id_set, DOMAIN resource_id_set)

\* ResourceIdSet::ReleaseConstrained
IdSetReleaseConstrained(ids, resource_id_set, resources_total) ==
  IdSetReleaseOver(ids, resource_id_set,
                   {k \in DOMAIN resource_id_set :
                      GetResource(resources_total, k) # 0})

\* ResourceIdSet::AddOrUpdateResource
IdSetAddOrUpdateResource(ids, resource_name, capacity) ==
  IF resource_name \in DOMAIN ids
  THEN LET r == UpdateCapacity(ids[resource_name], capacity)
       IN IF r.fatal THEN IdFatal(ids)
          ELSE IdDone(Store(ids, resource_name, r.pool), EmptyIdSet)
  ELSE IdDone(Store(ids, resource_name, NewResourceIds(capacity)), EmptyIdSet)

\* ResourceIdSet::DeleteResource
IdSetDeleteResource(ids, resource_name) ==
  IF resource_name \in DOMAIN ids THEN EraseKey(ids, resource_name) ELSE ids

\* ResourceIdSet::ToResourceSet before the ResourceSet constructor checks it.
ToResourceSet(ids) == [k \in DOMAIN ids |-> TotalQuantity(ids[k])]

\* ----------------------------------------------- SchedulingResources
\* SchedulingResources is the record of its three ResourceSets.
\* SchedulingResources::SchedulingResources(const ResourceSet &total)
NewSchedulingResources(total) ==
  [resources_total |-> total, resources_available |-> total,
   resources_load |-> EmptySet]

SchedDone(sr) == [fatal |-> FALSE, sched |-> sr]
SchedFatal(sr) == [fatal |-> TRUE, sched |-> sr]

\* SchedulingResources::Release
SchedRelease(sr, resources) ==
  SchedDone([sr EXCEPT !.resources_available =
    AddResourcesCapacityConstrained(@, resources, sr.resources_total)])

\* SchedulingResources::Acquire
SchedAcquire(sr, resources) ==
  LET r == SubtractResourcesStrict(sr.resources_available, resources)
  IN IF r.fatal THEN SchedFatal(sr)
     ELSE SchedDone([sr EXCEPT !.resources_available = r.set])

\* SchedulingResources::AddResource
SchedAddResource(sr, resources) ==
  SchedDone([sr EXCEPT !.resources_total = AddResources(@, resources),
                       !.resources_available = AddResources(@, resources)])

\* Fault: a resource that did not exist is added to the load as well.
UpdateResourceCapacityAndLoad(sr, resource_name, capacity) ==
  LET new_capacity == capacity * One
      current_capacity == GetResource(sr.resources_total, resource_name)
  IN IF current_capacity > 0
     THEN LET capacity_difference == new_capacity - current_capacity
              current_available_capacity ==
                GetResource(sr.resources_available, resource_name)
              sum == current_available_capacity + capacity_difference
              new_available_capacity == IF sum < 0 THEN 0 ELSE sum
          IN SchedDone([sr EXCEPT
               !.resources_total =
                  AddOrUpdateResource(@, resource_name, new_capacity),
               !.resources_available =
                  AddOrUpdateResource(@, resource_name, new_available_capacity)])
     ELSE SchedDone([sr EXCEPT
               !.resources_total =
                  AddOrUpdateResource(@, resource_name, new_capacity),
               !.resources_available =
                  AddOrUpdateResource(@, resource_name, new_capacity),
               !.resources_load =
                  AddOrUpdateResource(@, resource_name, new_capacity)])

\* SchedulingResources::UpdateResourceCapacity
UpdateResourceCapacity(sr, resource_name, capacity) ==
  LET new_capacity == capacity * One
      current_capacity == GetResource(sr.resources_total, resource_name)
  IN IF current_capacity > 0
     THEN LET capacity_difference == new_capacity - current_capacity
              current_available_capacity ==
                GetResource(sr.resources_available, resource_name)
              sum == current_available_capacity + capacity_difference
              new_available_capacity == IF sum < 0 THEN 0 ELSE sum
          IN SchedDone([sr EXCEPT
               !.resources_total =
                  AddOrUpdateResource(@, resource_name, new_capacity),
               !.resources_available =
                  AddOrUpdateResource(@, resource_name, new_available_capacity)])
     ELSE SchedDone([sr EXCEPT
               !.resources_total =
                  AddOrUpdateResource(@, resource_name, new_capacity),
               !.resources_available =
                  AddOrUpdateResource(@, resource_name, new_capacity)])

\* Fault: the resource is left in the total set.
SchedDeleteResourceKeepingTotal(sr, resource_name) ==
  SchedDone([sr EXCEPT
    !.resources_available = DeleteResource(@, resource_name),
    !.resources_load = DeleteResource(@, resource_name)])

\* SchedulingResources::DeleteResource
SchedDeleteResource(sr, resource_name) ==
  SchedDone([sr EXCEPT
    !.resources_total = DeleteResource(@, resource_name),
    !.resources_available = DeleteResource(@, resource_name),
    !.resources_load = DeleteResource(@, resource_name)])

\* SchedulingResources::SetLoadResources
SetLoadResources(sr, newset) ==
  SchedDone([sr EXCEPT !.resources_load = newset])

\* ------------------------------------------------------------- state
\* ------------------------------------------ InternalKVAccessor operators
\* The synchronous wrappers of accessor.cc.
KVOps ==
  {"InternalKVPut", "InternalKVKeys", "InternalKVGet", "InternalKVDel",
   "InternalKVExists"}

\* The Status values the store passes to a callback.
Statuses == {"OK", "IOError"}

\* The strings stored under keys.
Strings == {"a", "b"}

\* boost::optional: empty, or holding one value.
None == <<>>
Some(x) == <<x>>
ValueOr(opt, default) == IF opt = None THEN default ELSE opt[1]

\* The second argument the store can pass to the callback of each wrapper.
Results(op) ==
  CASE op = "InternalKVPut" -> {None, Some(0), Some(1)}
    [] op = "InternalKVKeys" -> {None, Some(<<>>), Some(<<"a">>)}
    [] op = "InternalKVGet" -> {None} \cup {Some(str) : str \in Strings}
    [] op = "InternalKVDel" -> {None}
    [] op = "InternalKVExists" -> {None, Some(TRUE), Some(FALSE)}
    [] OTHER -> {}

\* No caller's object: InternalKVDel has no output parameter.
NoOutput == <<"no output">>

\* What the caller's output object can hold when the wrapper is called.
PriorOutputs(op) ==
  CASE op = "InternalKVPut" -> BOOLEAN
    [] op = "InternalKVKeys" -> {<<>>}
    [] op = "InternalKVGet" -> {"", "a"}
    [] op = "InternalKVDel" -> {NoOutput}
    [] op = "InternalKVExists" -> BOOLEAN

\* The statements of each wrapper's callback, in the order of the code, for
\* the second argument result.
CallbackBody(op, result) ==
  CASE op = "InternalKVPut" -> <<"assign", "set_value">>
    [] op = "InternalKVKeys" -> <<"assign", "set_value">>
    [] op = "InternalKVGet" ->
         IF result # None
         THEN <<"set_value", "assign">>
         ELSE <<"set_not_found">>
    [] op = "InternalKVDel" -> <<"set_value">>
    [] op = "InternalKVExists" ->
         IF result # None
         THEN <<"assign", "set_value">>
         ELSE <<"set_value">>

\* The value the callback's assignment stores in the caller's object.
Assigned(op, result) ==
  CASE op = "InternalKVPut" -> ValueOr(result, 0) # 0
    [] op = "InternalKVKeys" -> ValueOr(result, <<>>)
    [] op = "InternalKVGet" -> result[1]
    [] op = "InternalKVExists" -> result[1]

\* Before the store has called back.
NoReply == [status |-> "none", result |-> None]

\* The caller has not read its object since the call.
NotRead == [read |-> FALSE, content |-> NoOutput]

VARIABLES
  \* One ResourceIds pool: its four fields.
  whole_ids, fractional_ids, total_capacity, decrement_backlog,
  \* The ResourceIds that Acquire returned on the pool and the caller still
  \* holds (a bag).
  granted,
  \* The last capacity decrease that left a backlog, and what was released
  \* since: [active, d, pre_total, pre_quantity, returned], returned counted
  \* up to d.
  shrink,
  \* One ResourceSet: its resource_capacity_.
  resource_capacity,
  \* The last call on the ResourceSet: [op, other, total, before].
  set_call,
  \* One ResourceIdSet: its available_resources_, and the ResourceIdSets that
  \* Acquire returned on it and the caller still holds (a bag).
  available_resources, id_granted,
  \* One SchedulingResources: its three ResourceSets, and the name of the
  \* last call on it.
  resources_total, resources_available, resources_load, sched_op,
  \* One synchronous InternalKVAccessor call: the wrapper called, the
  \* arguments the store hands the callback, the caller's and the callback's
  \* position, the promise, the caller's output object and whether it still
  \* exists, and what the caller read from it after the call.
  kv_op, kv_reply, caller_pc, callback_pc, ret_promise, output, output_alive,
  observed,
  \* A RAY_CHECK failed or the process crashed: it is gone.
  fatal

varsIds == <<whole_ids, fractional_ids, total_capacity, decrement_backlog,
             granted, shrink>>
varsSet == <<resource_capacity, set_call>>
varsIdSet == <<available_resources, id_granted>>
varsSched == <<resources_total, resources_available, resources_load, sched_op>>
varsKV == <<kv_op, kv_reply, caller_pc, callback_pc, ret_promise, output,
            output_alive, observed>>
vars == <<varsIds, varsSet, varsIdSet, varsSched, varsKV, fatal>>

\* ---------------------------------------------------- one ResourceIds
\* The pool as the operators above take it.
Pool ==
  [whole_ids |-> whole_ids, fractional_ids |-> fractional_ids,
   total_capacity |-> total_capacity, decrement_backlog |-> decrement_backlog]

SetPool(p) ==
  /\ whole_ids' = p.whole_ids
  /\ fractional_ids' = p.fractional_ids
  /\ total_capacity' = p.total_capacity
  /\ decrement_backlog' = p.decrement_backlog

\* The quantities a caller asks a pool for: a fraction below 1 or a whole
\* number of units.
Fractions == 1..(One - 1)
Wholes == {n * One : n \in 1..MaxCap}
Quantities == Fractions \cup Wholes

NoShrink == [active |-> FALSE, d |-> 0, pre_total |-> 0, pre_quantity |-> 0,
             returned |-> 0]

\* The quantity the callers hold.
RECURSIVE BagQuantity(_)
BagQuantity(B) ==
  IF BagToSet(B) = {} THEN 0
  ELSE LET g == CHOOSE x \in BagToSet(B) : TRUE
       IN TotalQuantity(g) + BagQuantity(B (-) SetToBag({g}))

\* The process terminates on a failed RAY_CHECK.
Die ==
  fatal' = TRUE /\ UNCHANGED <<varsIds, varsSet, varsIdSet, varsSched, varsKV>>

\* The components a specification does not exercise.
IdleIds ==
  /\ whole_ids = <<>> /\ fractional_ids = <<>>
  /\ total_capacity = 0 /\ decrement_backlog = 0
  /\ granted = EmptyBag /\ shrink = NoShrink
IdleSet ==
  /\ resource_capacity = EmptySet
  /\ set_call = [op |-> "none", other |-> EmptySet, total |-> EmptySet,
                 before |-> EmptySet]
IdleIdSet == available_resources = EmptyIdSet /\ id_granted = EmptyBag
IdleSched ==
  /\ resources_total = EmptySet /\ resources_available = EmptySet
  /\ resources_load = EmptySet /\ sched_op = "none"
IdleKV ==
  /\ kv_op = "none" /\ kv_reply = NoReply
  /\ caller_pc = "idle" /\ callback_pc = <<>>
  /\ ret_promise = "unset"
  /\ output = NoOutput /\ output_alive = FALSE
  /\ observed = NotRead

\* A pool constructed with a whole capacity, nothing granted.
InitIds ==
  /\ \E c \in 0..MaxCap : LET p == NewResourceIds(c) IN
       /\ whole_ids = p.whole_ids
       /\ fractional_ids = p.fractional_ids
       /\ total_capacity = p.total_capacity
       /\ decrement_backlog = p.decrement_backlog
  /\ granted = EmptyBag
  /\ shrink = NoShrink
  /\ fatal = FALSE
  /\ IdleSet /\ IdleIdSet /\ IdleSched /\ IdleKV

\* A caller acquires q from the pool and keeps what it is given.
IdsAcquire(q) ==
  /\ ~fatal
  /\ BagCardinality(granted) < MaxGrants
  /\ LET r == Acquire(Pool, q)
     IN IF r.fatal
        THEN Die
        ELSE /\ SetPool(r.pool)
             /\ granted' = granted (+) SetToBag({r.grant})
             /\ UNCHANGED <<shrink, fatal, varsKV, varsSet, varsIdSet, varsSched>>

\* The whole units a release hands back: its whole ids and the fractions
\* that complete a slot.
UnitsReturned(before, after, g) ==
  Len(g.whole_ids)
  + (Len(before.fractional_ids) + Len(g.fractional_ids)
     - Len(after.fractional_ids)) \div 2

\* A caller releases one of the grants it holds.
IdsRelease(g) ==
  /\ ~fatal
  /\ BagIn(g, granted)
  /\ LET r == Release(Pool, g)
     IN IF r.fatal
        THEN Die
        ELSE /\ SetPool(r.pool)
             /\ granted' = granted (-) SetToBag({g})
             /\ shrink' = IF shrink.active
                          THEN [shrink EXCEPT !.returned =
                                  Min(shrink.d,
                                      @ + UnitsReturned(Pool, r.pool, g))]
                          ELSE shrink
             /\ UNCHANGED <<fatal, varsKV, varsSet, varsIdSet, varsSched>>

\* The owner sets the pool's capacity.
IdsUpdateCapacity(n) ==
  /\ ~fatal
  /\ LET r == UpdateCapacity(Pool, n)
         d == TruncToInt(total_capacity - n * One)
     IN IF r.fatal
        THEN Die
        ELSE /\ TotalQuantity(r.pool) + BagQuantity(granted) <= MaxSlots * One
             /\ SetPool(r.pool)
             /\ shrink' = IF d > Len(whole_ids)
                          THEN [active |-> TRUE, d |-> d,
                                pre_total |-> total_capacity,
                                pre_quantity |-> TotalQuantity(Pool)
                                  + BagQuantity(granted)
                                  - decrement_backlog * One,
                                returned |-> 0]
                          ELSE NoShrink
             /\ UNCHANGED <<granted, fatal, varsKV, varsSet, varsIdSet, varsSched>>

NextIds ==
  \/ \E q \in Quantities : IdsAcquire(q)
  \/ \E g \in BagToSet(granted) : IdsRelease(g)
  \/ \E n \in 0..MaxCap : IdsUpdateCapacity(n)

SpecIds == InitIds /\ [][NextIds]_vars

\* ---------------------------------------------------- one ResourceSet
\* The ResourceSets the callers of the model pass.
ResourceSets == ResourceSetsUpTo(MaxQty)

Called(op, other, total) ==
  set_call' = [op |-> op, other |-> other, total |-> total,
               before |-> resource_capacity]

\* No value of the set after the call is beyond what the model stores.
Within(self) == \A k \in DOMAIN self : self[k] <= MaxQty

\* The sets passed to AddResourcesCapacityConstrained: values below the
\* largest the ResourceSet itself may hold, so that it may exceed them.
CappedSets == ResourceSetsUpTo(MaxQty - 1)

\* The maps of doubles the callers construct a ResourceSet from.
DoubleMaps == UNION {[D -> 0..DoubleSteps] : D \in SUBSET Names}

\* A ResourceSet constructed from a map of positive FixedPoint values.
InitSet ==
  /\ \E resource_map \in ResourceSets :
       resource_capacity = NewResourceSet(resource_map).set
  /\ set_call = [op |-> "none", other |-> EmptySet, total |-> EmptySet,
                 before |-> EmptySet]
  /\ fatal = FALSE
  /\ IdleIds /\ IdleIdSet /\ IdleSched /\ IdleKV

\* The ResourceSet is constructed anew from a map of doubles.
SetConstruct(resource_map) ==
  /\ ~fatal
  /\ LET r == NewResourceSetOfDoubles(resource_map)
     IN IF r.fatal
        THEN Die
        ELSE /\ resource_capacity' = r.set
             /\ Called("ResourceSet", EmptySet, EmptySet)
             /\ UNCHANGED <<fatal, varsKV, varsIds, varsIdSet, varsSched>>

SetAddOrUpdateResource(name, capacity) ==
  /\ ~fatal
  /\ resource_capacity' = AddOrUpdateResource(resource_capacity, name, capacity)
  /\ Called("AddOrUpdateResource", EmptySet, EmptySet)
  /\ UNCHANGED <<fatal, varsKV, varsIds, varsIdSet, varsSched>>

SetDeleteResource(name) ==
  /\ ~fatal
  /\ resource_capacity' = DeleteResource(resource_capacity, name)
  /\ Called("DeleteResource", EmptySet, EmptySet)
  /\ UNCHANGED <<fatal, varsKV, varsIds, varsIdSet, varsSched>>

SetSubtractResources(other) ==
  /\ ~fatal
  /\ resource_capacity' = SubtractResources(resource_capacity, other)
  /\ Called("SubtractResources", other, EmptySet)
  /\ UNCHANGED <<fatal, varsKV, varsIds, varsIdSet, varsSched>>

SetSubtractResourcesStrict(other) ==
  /\ ~fatal
  /\ LET r == SubtractResourcesStrict(resource_capacity, other)
     IN IF r.fatal
        THEN Die
        ELSE /\ resource_capacity' = r.set
             /\ Called("SubtractResourcesStrict", other, EmptySet)
             /\ UNCHANGED <<fatal, varsKV, varsIds, varsIdSet, varsSched>>

SetAddResources(other) ==
  /\ ~fatal
  /\ Within(AddResources(resource_capacity, other))
  /\ resource_capacity' = AddResources(resource_capacity, other)
  /\ Called("AddResources", other, EmptySet)
  /\ UNCHANGED <<fatal, varsKV, varsIds, varsIdSet, varsSched>>

SetAddResourcesCapacityConstrained(other, total) ==
  /\ ~fatal
  /\ resource_capacity' =
       AddResourcesCapacityConstrained(resource_capacity, other, total)
  /\ Called("AddResourcesCapacityConstrained", other, total)
  /\ UNCHANGED <<fatal, varsKV, varsIds, varsIdSet, varsSched>>

NextSet ==
  \/ \E resource_map \in DoubleMaps : SetConstruct(resource_map)
  \/ \E name \in Names, capacity \in 0..MaxQty :
       SetAddOrUpdateResource(name, capacity)
  \/ \E name \in Names : SetDeleteResource(name)
  \/ \E other \in ResourceSets : SetSubtractResources(other)
  \/ \E other \in ResourceSets : SetSubtractResourcesStrict(other)
  \/ \E other \in ResourceSets : SetAddResources(other)
  \/ \E other \in CappedSets, total \in CappedSets :
       SetAddResourcesCapacityConstrained(other, total)

SpecSet == InitSet /\ [][NextSet]_vars

\* --------------------------------------------- one SchedulingResources
Sched ==
  [resources_total |-> resources_total,
   resources_available |-> resources_available,
   resources_load |-> resources_load]

SetSched(sr, op) ==
  /\ resources_total' = sr.resources_total
  /\ resources_available' = sr.resources_available
  /\ resources_load' = sr.resources_load
  /\ sched_op' = op

\* The largest numerator of a node's capacity, the requests made of it and
\* the loads reported to it.
SchedMax == MaxSlots * One
SchedTotals == UNION {[D -> {c * One : c \in 1..MaxCap}] : D \in SUBSET Names}
SchedRequests == ResourceSetsUpTo(MaxQty)
SchedLoads == {EmptySet, [k \in {"CPU"} |-> One]}

\* SchedulingResources constructed from its total.
InitSched ==
  /\ resources_total \in SchedTotals
  /\ resources_available = resources_total
  /\ resources_load = EmptySet
  /\ sched_op = "none"
  /\ fatal = FALSE
  /\ IdleIds /\ IdleSet /\ IdleIdSet /\ IdleKV

NodeAcquire(resources) ==
  /\ ~fatal
  /\ LET r == SchedAcquire(Sched, resources)
     IN IF r.fatal
        THEN Die
        ELSE /\ SetSched(r.sched, "Acquire")
             /\ UNCHANGED <<fatal, varsKV, varsIds, varsSet, varsIdSet>>

NodeRelease(resources) ==
  /\ ~fatal
  /\ SetSched(SchedRelease(Sched, resources).sched, "Release")
  /\ UNCHANGED <<fatal, varsKV, varsIds, varsSet, varsIdSet>>

NodeAddResource(resources) ==
  /\ ~fatal
  /\ LET r == SchedAddResource(Sched, resources)
     IN /\ \A k \in DOMAIN r.sched.resources_total :
             r.sched.resources_total[k] <= SchedMax
        /\ \A k \in DOMAIN r.sched.resources_available :
             r.sched.resources_available[k] <= SchedMax
        /\ SetSched(r.sched, "AddResource")
  /\ UNCHANGED <<fatal, varsKV, varsIds, varsSet, varsIdSet>>

NodeUpdateResourceCapacity(name, capacity) ==
  /\ ~fatal
  /\ SetSched(UpdateResourceCapacity(Sched, name, capacity).sched,
              "UpdateResourceCapacity")
  /\ UNCHANGED <<fatal, varsKV, varsIds, varsSet, varsIdSet>>

NodeDeleteResource(name) ==
  /\ ~fatal
  /\ SetSched(SchedDeleteResource(Sched, name).sched, "DeleteResource")
  /\ UNCHANGED <<fatal, varsKV, varsIds, varsSet, varsIdSet>>

NodeSetLoadResources(newset) ==
  /\ ~fatal
  /\ SetSched(SetLoadResources(Sched, newset).sched, "SetLoadResources")
  /\ UNCHANGED <<fatal, varsKV, varsIds, varsSet, varsIdSet>>

\* Acquire and Release alone.
NextAccounting ==
  \/ \E resources \in SchedRequests : NodeAcquire(resources)
  \/ \E resources \in SchedRequests : NodeRelease(resources)

SpecAccounting == InitSched /\ [][NextAccounting]_vars

NextSched ==
  \/ \E resources \in SchedRequests : NodeAcquire(resources)
  \/ \E resources \in SchedRequests : NodeRelease(resources)
  \/ \E resources \in SchedTotals : NodeAddResource(resources)
  \/ \E name \in Names, capacity \in 0..MaxCap :
       NodeUpdateResourceCapacity(name, capacity)
  \/ \E name \in Names : NodeDeleteResource(name)
  \/ \E newset \in SchedLoads : NodeSetLoadResources(newset)

SpecSched == InitSched /\ [][NextSched]_vars

\* --------------------------------------------------- one ResourceIdSet
\* The requests made of the ResourceIdSet.
IdQuantities == Fractions \cup {n * One : n \in 1..MaxIdCap}
\* The ResourceIdSet is exercised on one resource name; its operations treat
\* every name alike, one map entry at a time.
IdNames == {"CPU"}
IdRequests == UNION {[D -> IdQuantities] : D \in SUBSET IdNames}

\* The quantity of one resource the callers hold.
RECURSIVE IdBagQuantity(_, _)
IdBagQuantity(B, name) ==
  IF BagToSet(B) = {} THEN 0
  ELSE LET g == CHOOSE x \in BagToSet(B) : TRUE
       IN (IF name \in DOMAIN g THEN TotalQuantity(g[name]) ELSE 0)
          + IdBagQuantity(B (-) SetToBag({g}), name)

\* A ResourceIdSet constructed from a ResourceSet of whole quantities.
InitIdSet ==
  /\ \E total \in UNION {[D -> {n * One : n \in 1..MaxIdCap}] :
                         D \in SUBSET IdNames} :
       available_resources = NewResourceIdSet(total)
  /\ id_granted = EmptyBag
  /\ fatal = FALSE
  /\ IdleIds /\ IdleSet /\ IdleSched /\ IdleKV

WorkerAcquire(resource_set) ==
  /\ ~fatal
  /\ id_granted = EmptyBag
  /\ LET r == IdSetAcquire(available_resources, resource_set)
     IN IF r.fatal
        THEN Die
        ELSE /\ available_resources' = r.set
             /\ id_granted' = id_granted (+) SetToBag({r.grant})
             /\ UNCHANGED <<fatal, varsKV, varsIds, varsSet, varsSched>>

WorkerRelease(g) ==
  /\ ~fatal
  /\ BagIn(g, id_granted)
  /\ LET r == IdSetRelease(available_resources, g)
     IN IF r.fatal
        THEN Die
        ELSE /\ available_resources' = r.set
             /\ id_granted' = id_granted (-) SetToBag({g})
             /\ UNCHANGED <<fatal, varsKV, varsIds, varsSet, varsSched>>

WorkerReleaseConstrained(g, total) ==
  /\ ~fatal
  /\ BagIn(g, id_granted)
  /\ LET r == IdSetReleaseConstrained(available_resources, g, total)
     IN IF r.fatal
        THEN Die
        ELSE /\ available_resources' = r.set
             /\ id_granted' = id_granted (-) SetToBag({g})
             /\ UNCHANGED <<fatal, varsKV, varsIds, varsSet, varsSched>>

WorkerAddOrUpdateResource(name, capacity) ==
  /\ ~fatal
  /\ LET r == IdSetAddOrUpdateResource(available_resources, name, capacity)
     IN IF r.fatal
        THEN Die
        ELSE /\ TotalQuantity(r.set[name]) + IdBagQuantity(id_granted, name)
                  <= MaxIdSlots * One
             /\ available_resources' = r.set
             /\ UNCHANGED <<id_granted, fatal, varsKV, varsIds, varsSet, varsSched>>

WorkerDeleteResource(name) ==
  /\ ~fatal
  /\ available_resources' = IdSetDeleteResource(available_resources, name)
  /\ UNCHANGED <<id_granted, fatal, varsKV, varsIds, varsSet, varsSched>>

NextIdSet ==
  \/ \E resource_set \in IdRequests : WorkerAcquire(resource_set)
  \/ \E g \in BagToSet(id_granted) : WorkerRelease(g)
  \/ \E g \in BagToSet(id_granted), total \in ResourceSetsUpTo(1) :
       WorkerReleaseConstrained(g, total)
  \/ \E name \in IdNames, capacity \in 0..MaxIdCap :
       WorkerAddOrUpdateResource(name, capacity)
  \/ \E name \in IdNames : WorkerDeleteResource(name)

SpecIdSet == InitIdSet /\ [][NextIdSet]_vars

\* ----------------------------------- one synchronous InternalKVAccessor call
\* The calling thread enters a wrapper with its output object: the promise is
\* constructed, the asynchronous request is issued with the callback, and the
\* thread blocks in get(). One call is followed at a time.
KVCall(op, prior) ==
  /\ ~fatal
  /\ caller_pc # "blocked"
  /\ callback_pc = <<>>
  /\ kv_op' = op
  /\ kv_reply' = NoReply
  /\ caller_pc' = "blocked"
  /\ callback_pc' = <<"invoke">>
  /\ ret_promise' = "unset"
  /\ output' = prior
  /\ output_alive' = TRUE
  /\ observed' = NotRead
  /\ UNCHANGED <<fatal, varsIds, varsSet, varsIdSet, varsSched>>

\* The store's thread calls the callback with a status and a result.
KVInvoke(status) ==
  /\ ~fatal
  /\ callback_pc = <<"invoke">>
  /\ \E result \in Results(kv_op) :
       /\ kv_reply' = [status |-> status, result |-> result]
       /\ callback_pc' = CallbackBody(kv_op, result)
  /\ UNCHANGED <<kv_op, caller_pc, ret_promise, output, output_alive,
                 observed, fatal, varsIds, varsSet, varsIdSet, varsSched>>

\* The callback's next statement assigns through the captured reference to
\* the caller's object. When the object is gone the reference dangles: the
\* write goes unnoticed or the process crashes.
CallbackAssign ==
  /\ ~fatal
  /\ callback_pc # <<>>
  /\ Head(callback_pc) = "assign"
  /\ callback_pc' = Tail(callback_pc)
  /\ IF output_alive
     THEN output' = Assigned(kv_op, kv_reply.result) /\ UNCHANGED fatal
     ELSE UNCHANGED output /\ fatal' \in BOOLEAN
  /\ UNCHANGED <<kv_op, kv_reply, caller_pc, ret_promise, output_alive,
                 observed, varsIds, varsSet, varsIdSet, varsSched>>

\* The callback's next statement is ret_promise.set_value.
CallbackSetValue ==
  /\ ~fatal
  /\ callback_pc # <<>>
  /\ Head(callback_pc) \in {"set_value", "set_not_found"}
  /\ callback_pc' = Tail(callback_pc)
  /\ ret_promise' = IF Head(callback_pc) = "set_not_found"
                    THEN "NotFound"
                    ELSE kv_reply.status
  /\ UNCHANGED <<kv_op, kv_reply, caller_pc, output, output_alive, observed,
                 fatal, varsIds, varsSet, varsIdSet, varsSched>>

\* ret_promise.get_future().get() returns once the promise holds a value, and
\* the wrapper returns it.
CallerReturn ==
  /\ ~fatal
  /\ caller_pc = "blocked"
  /\ ret_promise # "unset"
  /\ caller_pc' = "returned"
  /\ UNCHANGED <<kv_op, kv_reply, callback_pc, ret_promise, output,
                 output_alive, observed, fatal, varsIds, varsSet, varsIdSet,
                 varsSched>>

\* After the call the caller reads the object it passed.
CallerRead ==
  /\ ~fatal
  /\ caller_pc = "returned"
  /\ output_alive
  /\ ~observed.read
  /\ kv_op # "InternalKVDel"
  /\ observed' = [read |-> TRUE, content |-> output]
  /\ UNCHANGED <<kv_op, kv_reply, caller_pc, callback_pc, ret_promise, output,
                 output_alive, fatal, varsIds, varsSet, varsIdSet, varsSched>>

\* After the call the caller's object goes out of scope.
CallerLeave ==
  /\ ~fatal
  /\ caller_pc = "returned"
  /\ output_alive
  /\ output_alive' = FALSE
  /\ UNCHANGED <<kv_op, kv_reply, caller_pc, callback_pc, ret_promise, output,
                 observed, fatal, varsIds, varsSet, varsIdSet, varsSched>>

InitKV ==
  /\ IdleKV
  /\ fatal = FALSE
  /\ IdleIds /\ IdleSet /\ IdleIdSet /\ IdleSched

NextKV ==
  \/ \E op \in KVOps : \E prior \in PriorOutputs(op) : KVCall(op, prior)
  \/ \E status \in Statuses : KVInvoke(status)
  \/ CallbackAssign
  \/ CallbackSetValue
  \/ CallerReturn
  \/ CallerRead
  \/ CallerLeave

SpecKV == InitKV /\ [][NextKV]_vars

\* ------------------------------------------------------------- claims
\* How often id occurs in a sequence of ids.
Occurrences(ids, id) == Cardinality({i \in 1..Len(ids) : ids[i] = id})

FractionalIdsOf(p) == [i \in 1..Len(p.fractional_ids) |-> p.fractional_ids[i][1]]

\* C1: in every reachable pool every slot id occurs at most once in
\* whole_ids, at most once in fractional_ids and never in both, the ids of
\* slots added by a capacity increase included.
C1_NoDoubleHolding ==
  \A id \in {whole_ids[i] : i \in 1..Len(whole_ids)}
            \cup {fractional_ids[i][1] : i \in 1..Len(fractional_ids)} :
    Occurrences(whole_ids, id) + Occurrences(FractionalIdsOf(Pool), id) <= 1

\* The fractional entries of a pool and its free whole ids, order ignored.
FractionBag(p) ==
  LET fr == p.fractional_ids
      S == {fr[i] : i \in 1..Len(fr)}
  IN [e \in S |-> Cardinality({i \in 1..Len(fr) : fr[i] = e})]
WholeBag(p) ==
  LET S == {p.whole_ids[i] : i \in 1..Len(p.whole_ids)}
  IN [e \in S |-> Occurrences(p.whole_ids, e)]

ObservationallyEqual(p, r) ==
  /\ TotalQuantity(p) = TotalQuantity(r)
  /\ WholeBag(p) = WholeBag(r)
  /\ FractionBag(p) = FractionBag(r)

\* Acquire(q) immediately followed by Release of what it returned.
AcquireThenRelease(p, q) ==
  LET a == Acquire(p, q)
  IN IF a.fatal THEN Fatal(p) ELSE Release(a.pool, a.grant)

\* C2: for every reachable pool and every quantity q it contains, Acquire(q)
\* followed by Release of the result fails no check and restores the pool:
\* the same TotalQuantity, free whole ids and fractional entries.
C2_AcquireReleaseRestores ==
  ~fatal =>
    \A q \in Quantities :
      Contains(Pool, q) =>
        LET r == AcquireThenRelease(Pool, q)
        IN ~r.fatal /\ ObservationallyEqual(r.pool, Pool)

\* C3: when UpdateCapacity lowers the capacity by d > 0 and fewer than d
\* whole units are free, the call fails no check, removes every free whole
\* id, adds d minus the units removed to the backlog, leaves fractional_ids
\* alone and sets total_capacity to the new capacity.
C3_DecreaseBeyondFree ==
  ~fatal =>
    \A n \in 0..MaxCap :
      LET d == TruncToInt(total_capacity - n * One)
          r == UpdateCapacity(Pool, n)
      IN (d > 0 /\ Len(whole_ids) < d) =>
           /\ ~r.fatal
           /\ r.pool.whole_ids = <<>>
           /\ r.pool.decrement_backlog = decrement_backlog + d - Len(whole_ids)
           /\ r.pool.fractional_ids = fractional_ids
           /\ r.pool.total_capacity = n * One

\* C8: every residual stored in fractional_ids is strictly between 0 and 1.
C8_ResidualsInOpenUnit ==
  \A i \in 1..Len(fractional_ids) :
    fractional_ids[i][2] > 0 /\ fractional_ids[i][2] < One

\* C8 happens: a fractional grant is out and a residual is stored.
C8_ResidualStored ==
  /\ ~fatal
  /\ fractional_ids # <<>>
  /\ \E g \in BagToSet(granted) : g.fractional_ids # <<>>

C5_UpdateExistingCapacity ==
  ~fatal =>
    \A name \in Names, capacity \in 0..MaxCap :
      LET c == GetResource(resources_total, name)
          want == Max(0, GetResource(resources_available, name)
                           + capacity * One - c)
          r == UpdateResourceCapacity(Sched, name, capacity).sched
      IN c > 0 =>
           /\ GetResource(r.resources_total, name) = capacity * One
           /\ capacity = 0 => name \notin DOMAIN r.resources_total
           /\ GetResource(r.resources_available, name) = want
           /\ want = 0 => name \notin DOMAIN r.resources_available

\* C6: under Acquire and Release alone, available[name] <= total[name] for
\* every resource name.
C6_AvailableWithinTotal ==
  \A name \in Names :
    GetResource(resources_available, name) <= GetResource(resources_total, name)

\* C6 happens: a Release has brought a resource back to its total.
C6_ReleasedToTotal ==
  /\ ~fatal
  /\ sched_op = "Release"
  /\ \E name \in DOMAIN resources_total :
       GetResource(resources_available, name) = resources_total[name]

\* C7: every value stored in the ResourceSet is strictly positive.
C7_StoredValuesPositive ==
  ~fatal => \A k \in DOMAIN resource_capacity : resource_capacity[k] > 0

\* C9: a resource name is a key of the ResourceIdSet only with a non-empty
\* pool.
C9_KeyIffNonEmpty ==
  ~fatal =>
    \A k \in DOMAIN available_resources :
      ~TotalQuantityIsZero(available_resources[k])

\* A key of the ResourceSet is as it was before the last call.
Untouched(k) ==
  /\ k \in DOMAIN resource_capacity <=> k \in DOMAIN set_call.before
  /\ GetResource(resource_capacity, k) = GetResource(set_call.before, k)

\* C10 as stated: after AddResourcesCapacityConstrained(x, total) every key
\* of total has self[k] <= total[k], and keys of x absent from total are
\* not added and leave self unchanged.
C10_CappedByTotal ==
  (~fatal /\ set_call.op = "AddResourcesCapacityConstrained") =>
    /\ \A k \in DOMAIN set_call.total :
         GetResource(resource_capacity, k) <= set_call.total[k]
    /\ \A k \in DOMAIN set_call.other \ DOMAIN set_call.total : Untouched(k)

\* C10 amended: after AddResourcesCapacityConstrained(x, total) every key
\* of both x and total has self[k] <= total[k]; every other key, those of x
\* absent from total included, is as it was before the call.
C10_CappedByTotalAmended ==
  (~fatal /\ set_call.op = "AddResourcesCapacityConstrained") =>
    /\ \A k \in DOMAIN set_call.other \cap DOMAIN set_call.total :
         /\ k \in DOMAIN resource_capacity
         /\ resource_capacity[k] <= set_call.total[k]
    /\ \A k \in Names \ (DOMAIN set_call.other \cap DOMAIN set_call.total) :
         Untouched(k)

\* C10 happens: the call capped one key at total and skipped another that
\* total lacks.
C10_CappedAndSkipped ==
  /\ ~fatal
  /\ set_call.op = "AddResourcesCapacityConstrained"
  /\ \E k \in DOMAIN set_call.other \cap DOMAIN set_call.total :
       /\ resource_capacity[k] = set_call.total[k]
       /\ GetResource(set_call.before, k) + set_call.other[k]
            > set_call.total[k]
  /\ DOMAIN set_call.other \ DOMAIN set_call.total # {}

\* C11: SubtractResourcesStrict(other) is fatal exactly when a key of other
\* is absent from self or exceeds self's value; otherwise every key of other
\* is reduced by other[k] and erased at exactly 0, and the keys not in other
\* are unchanged.
C11_StrictSubtract ==
  ~fatal =>
    /\ \A other \in ResourceSets :
         SubtractResourcesStrict(resource_capacity, other).fatal
           <=> \E k \in DOMAIN other :
                 \/ k \notin DOMAIN resource_capacity
                 \/ other[k] > resource_capacity[k]
    /\ set_call.op = "SubtractResourcesStrict" =>
         /\ \A k \in DOMAIN set_call.other :
              LET v == set_call.before[k] - set_call.other[k]
              IN /\ k \in DOMAIN set_call.before
                 /\ v >= 0
                 /\ v = 0 => k \notin DOMAIN resource_capacity
                 /\ v > 0 => /\ k \in DOMAIN resource_capacity
                             /\ resource_capacity[k] = v
         /\ \A k \in Names \ DOMAIN set_call.other : Untouched(k)

\* C11 happens: a strict subtraction erased one key and reduced another.
C11_ErasedAndReduced ==
  /\ ~fatal
  /\ set_call.op = "SubtractResourcesStrict"
  /\ \E k \in DOMAIN set_call.other : k \notin DOMAIN resource_capacity
  /\ \E k \in DOMAIN set_call.other :
       /\ k \in DOMAIN resource_capacity
       /\ resource_capacity[k] < set_call.before[k]

\* C12: SubtractResources(other) leaves every key k of other at
\* max(0, self[k] - other[k]), erased when that is 0, creates no key that
\* self lacked, and leaves the keys not in other unchanged.
C12_ClampedSubtract ==
  (~fatal /\ set_call.op = "SubtractResources") =>
    /\ \A k \in DOMAIN set_call.other :
         LET v == Max(0, GetResource(set_call.before, k) - set_call.other[k])
         IN /\ v = 0 => k \notin DOMAIN resource_capacity
            /\ v > 0 => /\ k \in DOMAIN resource_capacity
                        /\ resource_capacity[k] = v
    /\ \A k \in Names \ DOMAIN set_call.other : Untouched(k)

\* C12 happens: a subtraction took more than one key held and met a key
\* the set lacked.
C12_ClampedAndAbsent ==
  /\ ~fatal
  /\ set_call.op = "SubtractResources"
  /\ \E k \in DOMAIN set_call.other \cap DOMAIN set_call.before :
       set_call.other[k] > set_call.before[k]
  /\ \E k \in DOMAIN set_call.other : k \notin DOMAIN set_call.before

\* Every value of a ResourceSet is positive.
Positive(self) == \A k \in DOMAIN self : self[k] > 0

\* C13: for ResourceSets A and B with positive values, A.IsSubset(B) and
\* B.IsSubset(A) both hold exactly when A == B, and exactly when A and B hold
\* the same keys with the same values.
C13_MutualSubsetIsEquality ==
  (~fatal /\ Positive(resource_capacity)) =>
    \A B \in ResourceSets :
      LET mutual == IsSubset(resource_capacity, B)
                      /\ IsSubset(B, resource_capacity)
      IN /\ mutual <=> IsEqual(resource_capacity, B)
         /\ mutual <=> /\ DOMAIN resource_capacity = DOMAIN B
                        /\ \A k \in DOMAIN B : resource_capacity[k] = B[k]

\* C13 happens: after a call the set is a subset of another set that is not
\* a subset of it, and equal to a third.
C13_SubsetOneWay ==
  /\ ~fatal
  /\ set_call.op # "none"
  /\ Positive(resource_capacity)
  /\ resource_capacity # EmptySet
  /\ \E B \in ResourceSets :
       IsSubset(resource_capacity, B) /\ ~IsSubset(B, resource_capacity)
  /\ \E B \in ResourceSets : IsEqual(resource_capacity, B)

\* C14: for every quantity q in (0, 1) or whole and >= 1, Acquire(q) fails
\* no check exactly when Contains(q) is true of the pool before the call.
C14_AcquireIffContains ==
  ~fatal =>
    \A q \in Quantities :
      /\ ~ContainsFatal(Pool, q)
      /\ ~Acquire(Pool, q).fatal <=> Contains(Pool, q)

\* C14 happens: after an Acquire the pool contains one quantity through a
\* fractional entry alone and lacks another.
C14_ContainedAndNot ==
  /\ ~fatal
  /\ granted # EmptyBag
  /\ whole_ids = <<>>
  /\ \E q \in Quantities : Contains(Pool, q) /\ ~Acquire(Pool, q).fatal
  /\ \E q \in Quantities : ~Contains(Pool, q) /\ Acquire(Pool, q).fatal

\* C15: Acquire, Release, AddResource and UpdateResourceCapacity leave the
\* load set as it was; a step that changes it is a SetLoadResources or a
\* DeleteResource.
C15_LoadUntouched ==
  [][/\ sched_op' \in {"Acquire", "Release", "AddResource",
                        "UpdateResourceCapacity"}
        => resources_load' = resources_load
     /\ resources_load' # resources_load
        => sched_op' \in {"SetLoadResources", "DeleteResource"}]_vars

\* C15 happens: a load was reported and the capacity of a resource was
\* updated afterwards.
C15_UpdatedUnderLoad ==
  /\ ~fatal
  /\ sched_op = "UpdateResourceCapacity"
  /\ resources_load # EmptySet
  /\ resources_total # EmptySet

\* The fractional entries of a sequence, order ignored.
EntryBag(fr) == FractionBag([fractional_ids |-> fr])

\* C16: Acquire(q) with 0 < q < 1 debits the first entry of fractional_ids
\* whose residual is >= q, removing it at residual 0, and leaves whole_ids
\* alone; only when no entry fits does it pop the tail whole id, return
\* (id, q) and add (id, 1 - q) to fractional_ids.
C16_FirstFitThenWhole ==
  ~fatal =>
    \A q \in Fractions :
      LET fr == fractional_ids
          fits == {i \in 1..Len(fr) : fr[i][2] >= q}
          r == Acquire(Pool, q)
      IN IF fits # {}
         THEN LET i == CHOOSE x \in fits : \A y \in fits : x <= y
                  rest == fr[i][2] - q
                  others == SubSeq(fr, 1, i - 1) \o SubSeq(fr, i + 1, Len(fr))
              IN /\ ~r.fatal
                 /\ r.grant.whole_ids = <<>>
                 /\ r.grant.fractional_ids = << <<fr[i][1], q>> >>
                 /\ r.pool.whole_ids = whole_ids
                 /\ EntryBag(r.pool.fractional_ids) =
                      IF rest = 0 THEN EntryBag(others)
                      ELSE EntryBag(Append(others, <<fr[i][1], rest>>))
                 /\ rest > 0 => r.pool.fractional_ids[i] = <<fr[i][1], rest>>
         ELSE whole_ids # <<>> =>
                LET id == whole_ids[Len(whole_ids)]
                IN /\ ~r.fatal
                   /\ r.grant.whole_ids = <<>>
                   /\ r.grant.fractional_ids = << <<id, q>> >>
                   /\ r.pool.whole_ids = SubSeq(whole_ids, 1, Len(whole_ids) - 1)
                   /\ r.pool.fractional_ids = Append(fr, <<id, One - q>>)

\* C16 happens: fractional grants are out, the pool holds two entries of
\* different slots that both fit a quantity, and a whole id besides.
C16_TwoEntriesFit ==
  /\ ~fatal
  /\ \E g \in BagToSet(granted) : g.fractional_ids # <<>>
  /\ whole_ids # <<>>
  /\ \E q \in Fractions, i, j \in 1..Len(fractional_ids) :
       /\ i < j
       /\ fractional_ids[i][1] # fractional_ids[j][1]
       /\ fractional_ids[i][2] >= q
       /\ fractional_ids[j][2] >= q

\* C17: Release of a grant of n whole ids on a pool with backlog b appends
\* exactly the last n - b ids of the grant to whole_ids and sets the backlog
\* to 0 when n > b; otherwise it appends nothing and the backlog becomes
\* b - n.
C17_ReleaseWholeAgainstBacklog ==
  ~fatal =>
    \A g \in BagToSet(granted) :
      g.fractional_ids = <<>> =>
        LET n == Len(g.whole_ids)
            b == decrement_backlog
            r == Release(Pool, g)
        IN /\ ~r.fatal
           /\ r.pool.fractional_ids = fractional_ids
           /\ n > b =>
                /\ r.pool.whole_ids =
                     whole_ids \o [i \in 1..(n - b) |-> g.whole_ids[b + i]]
                /\ r.pool.decrement_backlog = 0
           /\ n <= b =>
                /\ r.pool.whole_ids = whole_ids
                /\ r.pool.decrement_backlog = b - n

\* C17 happens: a grant of more whole ids than the positive backlog is out,
\* its first and last id different.
C17_DistinctIdsBeyondBacklog ==
  /\ ~fatal
  /\ decrement_backlog > 0
  /\ \E g \in BagToSet(granted) :
       /\ Len(g.whole_ids) > decrement_backlog
       /\ g.whole_ids[1] # g.whole_ids[Len(g.whole_ids)]

\* The fractional grants the callers hold: one (id, f) pair each.
FractionalGrants ==
  {g \in BagToSet(granted) : g.whole_ids = <<>> /\ Len(g.fractional_ids) = 1}

\* The entries of fr for slot id.
EntriesOf(fr, id) == {i \in 1..Len(fr) : fr[i][1] = id}

\* C18: Release of a fractional grant (id, f): with no entry for id in the
\* pool, (id, f) is appended to fractional_ids; otherwise f is added to the
\* entry, the call is fatal if the sum exceeds 1, and at exactly 1 the entry
\* is removed and id is appended to whole_ids when the backlog is 0, else the
\* backlog drops by 1 and id is not appended.
C18_ReleaseFractional ==
  ~fatal =>
    \A g \in FractionalGrants :
      LET id == g.fractional_ids[1][1]
          f == g.fractional_ids[1][2]
          fr == fractional_ids
          r == Release(Pool, g)
      IN IF EntriesOf(fr, id) = {}
         THEN /\ ~r.fatal
              /\ r.pool.fractional_ids = Append(fr, <<id, f>>)
              /\ r.pool.whole_ids = whole_ids
              /\ r.pool.decrement_backlog = decrement_backlog
         ELSE LET i == CHOOSE x \in EntriesOf(fr, id) :
                         \A y \in EntriesOf(fr, id) : x <= y
                  sum == fr[i][2] + f
                  others == SubSeq(fr, 1, i - 1) \o SubSeq(fr, i + 1, Len(fr))
              IN /\ r.fatal <=> sum > One
                 /\ sum < One =>
                      /\ r.pool.fractional_ids = [fr EXCEPT ![i] = <<id, sum>>]
                      /\ r.pool.whole_ids = whole_ids
                      /\ r.pool.decrement_backlog = decrement_backlog
                 /\ (sum = One /\ decrement_backlog = 0) =>
                      /\ r.pool.fractional_ids = others
                      /\ r.pool.whole_ids = Append(whole_ids, id)
                      /\ r.pool.decrement_backlog = 0
                 /\ (sum = One /\ decrement_backlog > 0) =>
                      /\ r.pool.fractional_ids = others
                      /\ r.pool.whole_ids = whole_ids
                      /\ r.pool.decrement_backlog = decrement_backlog - 1

\* C18 happens: under a positive backlog a fractional grant is out whose
\* release completes its slot.
C18_CompletesUnderBacklog ==
  /\ ~fatal
  /\ decrement_backlog > 0
  /\ \E g \in FractionalGrants :
       \E i \in EntriesOf(fractional_ids, g.fractional_ids[1][1]) :
         fractional_ids[i][2] + g.fractional_ids[1][2] = One

\* C19: UpdateCapacity with a positive delta on a pool with backlog b leaves
\* the backlog at max(0, b - delta), appends exactly max(0, delta - b) slots
\* of id -1 to whole_ids, raises total_capacity by that same number and
\* leaves fractional_ids alone.
C19_IncreaseCancelsBacklog ==
  ~fatal =>
    \A n \in 0..MaxCap :
      LET delta == TruncToInt(n * One - total_capacity)
          b == decrement_backlog
          added == Max(0, delta - b)
          r == UpdateCapacity(Pool, n)
      IN delta > 0 =>
           /\ ~r.fatal
           /\ r.pool.decrement_backlog = Max(0, b - delta)
           /\ r.pool.whole_ids = whole_ids \o [i \in 1..added |-> -1]
           /\ r.pool.total_capacity = total_capacity + added * One
           /\ r.pool.fractional_ids = fractional_ids

\* C19 happens: a decrease left a backlog and an increase beyond it is
\* possible.
C19_IncreaseBeyondBacklog ==
  /\ ~fatal
  /\ shrink.active
  /\ decrement_backlog > 0
  /\ \E n \in 0..MaxCap :
       TruncToInt(n * One - total_capacity) > decrement_backlog

\* C20: Plus(other) returns a pool whose whole_ids and fractional_ids are
\* those the receiver would have after Release(other), in every reachable
\* state of the receiver, a positive backlog included.
C20_PlusIsReleaseOnCopy ==
  ~fatal =>
    \A g \in BagToSet(granted) :
      LET sum == Plus(Pool, g)
          r == Release(Pool, g)
      IN /\ sum.fatal <=> r.fatal
         /\ ~r.fatal =>
              /\ sum.pool.whole_ids = r.pool.whole_ids
              /\ sum.pool.fractional_ids = r.pool.fractional_ids

\* Two ResourceSets agree on key k.
SameAt(a, b, k) ==
  /\ k \in DOMAIN a <=> k \in DOMAIN b
  /\ GetResource(a, k) = GetResource(b, k)

\* C21: DeleteResource(name) removes name from total, available and load,
\* and a Release issued afterwards does not bring name back into available
\* or total and treats every other entry as a Release without the deletion
\* would.
C21_DeleteThenRelease ==
  ~fatal =>
    \A name \in Names, resources \in SchedRequests :
      LET d == SchedDeleteResource(Sched, name).sched
          r == SchedRelease(d, resources).sched
          plain == SchedRelease(Sched, resources).sched
      IN /\ name \notin DOMAIN d.resources_total
         /\ name \notin DOMAIN d.resources_available
         /\ name \notin DOMAIN d.resources_load
         /\ name \notin DOMAIN r.resources_total
         /\ name \notin DOMAIN r.resources_available
         /\ \A k \in Names \ {name} :
              /\ SameAt(r.resources_available, plain.resources_available, k)
              /\ SameAt(r.resources_total, resources_total, k)
              /\ SameAt(r.resources_load, resources_load, k)

\* C21 happens: part of a resource was acquired and a load reported for it,
\* so that a deletion followed by the release of the acquired part applies.
C21_AcquiredBeforeDeletion ==
  /\ ~fatal
  /\ sched_op = "Acquire"
  /\ \E name \in DOMAIN resources_total \cap DOMAIN resources_load :
       GetResource(resources_available, name) < resources_total[name]

\* C22: ReleaseConstrained(granted, total) releases, as Release does, exactly
\* the pools of granted whose name has a non-zero quantity in total, and
\* leaves the set as it was for every other name: no key is created for a
\* granted name that total lacks.
C22_ReleaseConstrained ==
  ~fatal =>
    \A g \in BagToSet(id_granted), total \in ResourceSetsUpTo(1) :
      LET allowed == {k \in DOMAIN g : GetResource(total, k) # 0}
          r == IdSetReleaseConstrained(available_resources, g, total)
      IN /\ r.fatal <=>
              \E k \in allowed :
                IdSetReleaseEntry(available_resources, k, g[k]).fatal
         /\ ~r.fatal =>
              /\ \A k \in allowed :
                   /\ k \in DOMAIN r.set
                   /\ r.set[k] =
                        IdSetReleaseEntry(available_resources, k, g[k]).set[k]
              /\ \A k \in Names \ allowed :
                   /\ k \in DOMAIN r.set <=> k \in DOMAIN available_resources
                   /\ k \in DOMAIN r.set => r.set[k] = available_resources[k]

\* C22 happens: a grant is out for a name the set no longer holds, so that
\* its release would create the key.
C22_GrantForAbsentName ==
  /\ ~fatal
  /\ \E g \in BagToSet(id_granted) :
       \E k \in DOMAIN g : k \notin DOMAIN available_resources

\* C23: under Acquire, Release, AddResource, UpdateResourceCapacity and
\* DeleteResource the available set stays a subset of the total set.
C23_AvailableSubsetOfTotal ==
  ~fatal => IsSubset(resources_available, resources_total)

\* C24: when AddOrUpdateResource(name, c) is called while a grant for name
\* is out and the grant is released afterwards, the TotalQuantity of the pool
\* of name does not exceed c, also when the acquisition had emptied the pool
\* and removed the key.
C24_CapacityAfterRelease ==
  ~fatal =>
    \A g \in BagToSet(id_granted), capacity \in 0..MaxIdCap :
      \A name \in DOMAIN g :
        LET u == IdSetAddOrUpdateResource(available_resources, name, capacity)
            r == IdSetRelease(u.set, g)
        IN (~u.fatal /\ ~r.fatal) =>
             /\ name \in DOMAIN r.set
             /\ TotalQuantity(r.set[name]) <= capacity * One

\* C25: UpdateCapacity(n) is idempotent: after one call the recorded
\* total capacity is n, and a second call with the same n changes nothing.
C25_UpdateCapacityIdempotent ==
  ~fatal =>
    \A n \in 0..MaxCap :
      LET once == UpdateCapacity(Pool, n)
          twice == UpdateCapacity(once.pool, n)
      IN ~once.fatal =>
           /\ once.pool.total_capacity = n * One
           /\ ~twice.fatal
           /\ twice.pool = once.pool

\* C26: in every pool state reached by Acquire, Release and UpdateCapacity,
\* a positive decrement_backlog implies that whole_ids is empty.
C26_BacklogMeansNoWholeIds ==
  decrement_backlog > 0 => whole_ids = <<>>

\* C26 happens: a unit came back while removals were owed, and removals
\* are still owed afterwards.
C26_ReturnedWhileOwed ==
  /\ ~fatal
  /\ shrink.active
  /\ shrink.returned > 0
  /\ decrement_backlog > 0

\* The callback still has an assignment to the caller's object to run.
AssignPending == \E i \in DOMAIN callback_pc : callback_pc[i] = "assign"

\* C27: in the synchronous wrappers the calling thread has returned from
\* the call only when the callback has no assignment to the caller's output
\* object left to run; for InternalKVGet with a found key, the caller never
\* returns before value is assigned.
C27_ReturnAfterAssignment ==
  caller_pc = "returned" => ~AssignPending

====
